---- MODULE Spec2Model ----
(***************************************************************************)
(* The filter subscription hub of core/api/src/jsonrpc/impl/filter.rs:     *)
(* the FilterHub actor (logs_hub, blocks_hub), the commands it handles,    *)
(* the periodic sweep, and the front-door checks of AxonWeb3RpcFilter.     *)
(* The chain backend (APIAdapter) is the environment: a growing chain      *)
(* whose calls may also fail.                                              *)
(***************************************************************************)
EXTENDS Integers, Sequences, FiniteSets, TLC

\* ------------------------------------------------------------------ bounds
\* Highest chain head the environment produces.
MaxHead == 3
\* Last instant of the modelled clock, in seconds.
MaxTime == 40
\* log_filter_max_block_range, the configuration value given to FilterHub::new.
MaxRange == 1
\* Largest explicit to_block number a caller sends.
MaxTo == 1
\* Largest explicit from_block number a caller sends.
MaxFrom == 1
\* Most filters the callers keep registered at once.
MaxFilters == 1
\* The same two bounds where the clock is fine.
MaxSweepFilters == 2
MaxSweepHead == 1
\* Where the queue is modelled: most commands waiting at once, most filters
\* registered or being registered, and the highest head.
MaxQueue == 2
MaxQueueFilters == 1
MaxQueueHead == 1
\* Most commands waiting at once where the waits of handle are modelled.
MaxAwaitQueue == 1

\* ------------------------------------------------------- program constants
\* interval(Duration::from_secs(20))
SWEEP_PERIOD == 20
\* Duration::from_secs(40) in check_hubs
IDLE_WINDOW == 40
\* .take(4) in From<RawLoggerFilter>
MAX_TOPICS == 4
\* channel(128)
CHANNEL_CAPACITY == 128

VARIABLES
    head,        \* height of the chain's latest block (Chain Reader)
    now,         \* Instant::now(), seconds since the actor started
    nextTick,    \* instant at which time_internal.tick() is next ready
    logs_hub,    \* FilterHub.logs_hub:   id -> [filter, time]
    blocks_hub,  \* FilterHub.blocks_hub: id -> [number, time]
    actor,       \* position of FilterHub::run: "Running" or "Panicked"
    last,        \* the command handled last and what its caller got back
    queue,       \* the commands sent on the channel and not yet received
    inhand,      \* the command FilterHub::handle is working on, if any
    handles      \* whether any clone of the channel's sender is still held

vars == <<head, now, nextTick, logs_hub, blocks_hub, actor, last, queue, inhand, handles>>

\* The channel between the front door and the actor.
chan == <<queue, inhand, handles>>

\* ------------------------------------------------------------- data model
\* U256 as <<bits 64..255, bits 0..63>>.
U256s == {<<0, 1>>, <<1, 0>>}

\* BlockId and Option<BlockId>.
Num(n) == [tag |-> "Num", n |-> n]
Earliest == [tag |-> "Earliest", n |-> 0]
Latest == [tag |-> "Latest", n |-> 0]
Pending == [tag |-> "Pending", n |-> 0]
NoBlockId == [tag |-> "None", n |-> 0]

\* One topic position: Option<Vec<Option<Hash>>>.
Wild == [wild |-> TRUE, vals |-> {}]
OneOf(S) == [wild |-> FALSE, vals |-> S]

Min(a, b) == IF a <= b THEN a ELSE b

\* u64::saturating_sub
SatSub(a, b) == IF a >= b THEN a - b ELSE 0

\* Function m with key k set to v (HashMap::insert).
Insert(m, k, v) == [x \in (DOMAIN m) \cup {k} |-> IF x = k THEN v ELSE m[x]]

\* Function m without key k (HashMap::remove).
Remove(m, k) == [x \in (DOMAIN m) \ {k} |-> m[x]]

EmptyMap == [x \in {} |-> 0]

\* ------------------------------------------------- the chain (Chain Reader)
\* Hash of the block at height n; distinct heights have distinct hashes.
BlockHash(n) == <<"hash", n>>

\* The logs emitted by the receipts of the block at height n.
ChainLogs(n) ==
    IF n % 2 = 0
    THEN << [address |-> "A", topics |-> <<"T1">>],
            [address |-> "B", topics |-> <<"T1", "T2">>] >>
    ELSE << [address |-> "A", topics |-> <<"T2", "T1">>],
            [address |-> "A", topics |-> <<"T1", "T2">>] >>

\* What the backend calls of one command yield: every call answers ("ok"),
\* some call returns Err ("err"), or some looked-up block or header is None
\* ("none").
AdapterOutcomes == {"ok", "err", "none"}

\* ------------------------------------------------------- criteria model
\* Raw filters' address/topic parts as callers send them.
RawAny == [address |-> {}, topics |-> <<>>]
RawAT1 == [address |-> {"A"},
           topics |-> <<OneOf({"T1"}), Wild, Wild, Wild, OneOf({"T9"})>>]
RawCriteria == {RawAny, RawAT1}

FromSelectors ==
    {NoBlockId, Earliest, Latest, Pending} \cup {Num(n) : n \in 0..MaxFrom}
ToSelectors ==
    {NoBlockId, Earliest, Latest} \cup {Num(n) : n \in 0..MaxTo}

RawFilter(f, t, c) ==
    [from_block |-> f, to_block |-> t, address |-> c.address, topics |-> c.topics]

\* The filters callers send: every from_block with no other constraint, and
\* every to_block and every criteria with an absent or explicit from_block.
RawFilters ==
    {RawFilter(f, NoBlockId, RawAny) : f \in FromSelectors}
    \cup {RawFilter(f, t, RawAny) : f \in {NoBlockId, Num(0)}, t \in ToSelectors}
    \cup {RawFilter(f, NoBlockId, c) : f \in {NoBlockId, Num(0)}, c \in RawCriteria}

\* The filters sent where only their timing matters.
PlainFilters == {RawFilter(NoBlockId, NoBlockId, RawAny)}

\* Iterator::take(k)
Take(s, k) == SubSeq(s, 1, Min(Len(s), k))

\* impl From<RawLoggerFilter> for LoggerFilter
FromRaw(src) ==
    [from_block |-> src.from_block,
     to_block   |-> src.to_block,
     address    |-> src.address,
     topics     |-> Take(src.topics, MAX_TOPICS)]

\* The matcher applied to one emitted log.
LogMatches(filter, log) ==
    /\ (filter.address = {} \/ log.address \in filter.address)
    /\ \A i \in 1..Len(filter.topics) :
          \/ filter.topics[i].wild
          \/ (i <= Len(log.topics) /\ log.topics[i] \in filter.topics[i].vals)

\* extend_logs on the receipts of block n: the matching logs, in log order.
ExtendLogs(filter, n) ==
    LET all == [i \in 1..Len(ChainLogs(n)) |-> [block |-> n, index |-> i - 1]]
    IN  SelectSeq(all, LAMBDA w : LogMatches(filter, ChainLogs(n)[w.index + 1]))

\* ------------------------------------------------------------- replies
OkId(id) == [kind |-> "Id", val |-> id]
OkBlocks(hashes) == [kind |-> "Blocks", val |-> hashes]
OkLogs(logs) == [kind |-> "Logs", val |-> logs]
OkBool(b) == [kind |-> "Bool", val |-> b]
CannotFindFilterId(n) == [kind |-> "CannotFindFilterId", val |-> n]
InvalidBlockRange(s, e, m) == [kind |-> "InvalidBlockRange", val |-> <<s, e, m>>]
Internal(msg) == [kind |-> "Internal", val |-> msg]
InvalidFromBlockAndToBlockUnion == [kind |-> "InvalidFromBlockAndToBlockUnion", val |-> 0]
\* No reply: the handler panicked (unwrap on a failed call).
Panic == [kind |-> "Panic", val |-> 0]

\* U256::fits_word: the value fits in 64 bits.
fits_word(id) == id[1] = 0

\* ------------------------------------------------------ pure handler parts
\* handle(NewLogs) storing a from_block that is not a number as it was sent.
NewLogsFrom_KeepsSelector(from_block, number) ==
    LET from == IF from_block.tag = "None" THEN Latest ELSE from_block
    IN  IF from.tag = "Num"
        THEN IF from.n < number THEN Num(number + 1) ELSE from_block
        ELSE from_block


\* NewLogsFrom pinning to the head itself instead of the block after it.
NewLogsFrom_NoIncrement(from_block, number) ==
    LET from == IF from_block.tag = "None" THEN Latest ELSE from_block
    IN  IF from.tag = "Num"
        THEN IF from.n < number THEN Num(number + 1) ELSE from_block
        ELSE Num(number)

\* Lines 203-212 of handle (Command::NewLogs): the from_block that is stored.
NewLogsFrom(from_block, number) ==
    LET from == IF from_block.tag = "None" THEN Latest ELSE from_block
    IN  IF from.tag = "Num"
        THEN IF from.n < number THEN Num(number + 1) ELSE from_block
        ELSE Num(number + 1)

\* The closure convert of filter_logs.
convert(id, latest_number) ==
    CASE id.tag = "Num" -> id.n
      [] id.tag = "Earliest" -> 0
      [] OTHER -> latest_number

\* (start, end) of filter_logs.
StartOf(filter, latest_number) ==
    IF filter.from_block.tag = "None"
    THEN latest_number
    ELSE convert(filter.from_block, latest_number)

\* EndOf without the clamp to the head.
EndOf_Unclamped(filter, latest_number) ==
    IF filter.to_block.tag = "None"
    THEN latest_number
    ELSE convert(filter.to_block, latest_number)


EndOf(filter, latest_number) ==
    Min(IF filter.to_block.tag = "None"
        THEN latest_number
        ELSE convert(filter.to_block, latest_number),
        latest_number)

\* The loop over start..=end of filter_logs, which leaves the latest block out.
RECURSIVE ScanRange(_, _, _, _)
ScanRange(filter, n, end, latest_number) ==
    IF n > end
    THEN <<>>
    ELSE (IF n = latest_number THEN <<>> ELSE ExtendLogs(filter, n))
         \o ScanRange(filter, n + 1, end, latest_number)

\* FilterLogs leaving the cursor where it was.
FilterLogs_NoAdvance(entry, latest_number, t) ==
    LET filter == entry.filter
        start == StartOf(filter, latest_number)
        end == EndOf(filter, latest_number)
        visiter_last_block == start <= latest_number /\ latest_number <= end
        all_logs == ScanRange(filter, start, end, latest_number)
                    \o (IF visiter_last_block
                        THEN ExtendLogs(filter, latest_number)
                        ELSE <<>>)
    IN  IF start > latest_number
        THEN [res |-> OkLogs(<<>>), entry |-> entry]
        ELSE IF SatSub(end, start) > MaxRange
        THEN [res |-> InvalidBlockRange(start, end, MaxRange), entry |-> entry]
        ELSE [res |-> OkLogs(all_logs),
              entry |-> [filter |-> filter, time |-> t]]


\* FilterLogs leaving the cursor on the last scanned height.
FilterLogs_CursorAtEnd(entry, latest_number, t) ==
    LET filter == entry.filter
        start == StartOf(filter, latest_number)
        end == EndOf(filter, latest_number)
        visiter_last_block == start <= latest_number /\ latest_number <= end
        all_logs == ScanRange(filter, start, end, latest_number)
                    \o (IF visiter_last_block
                        THEN ExtendLogs(filter, latest_number)
                        ELSE <<>>)
    IN  IF start > latest_number
        THEN [res |-> OkLogs(<<>>), entry |-> entry]
        ELSE IF SatSub(end, start) > MaxRange
        THEN [res |-> InvalidBlockRange(start, end, MaxRange), entry |-> entry]
        ELSE [res |-> OkLogs(all_logs),
              entry |-> [filter |-> [filter EXCEPT !.from_block =
                                        IF @.tag = "Num" THEN Num(end) ELSE @],
                         time |-> t]]


\* filter_logs once the backend answered: the reply and the entry afterwards.
FilterLogs(entry, latest_number, t) ==
    LET filter == entry.filter
        start == StartOf(filter, latest_number)
        end == EndOf(filter, latest_number)
        visiter_last_block == start <= latest_number /\ latest_number <= end
        all_logs == ScanRange(filter, start, end, latest_number)
                    \o (IF visiter_last_block
                        THEN ExtendLogs(filter, latest_number)
                        ELSE <<>>)
    IN  IF start > latest_number
        THEN [res |-> OkLogs(<<>>), entry |-> entry]
        ELSE IF SatSub(end, start) > MaxRange
        THEN [res |-> InvalidBlockRange(start, end, MaxRange), entry |-> entry]
        ELSE [res |-> OkLogs(all_logs),
              entry |-> [filter |-> [filter EXCEPT !.from_block =
                                        IF @.tag = "Num" THEN Num(end + 1) ELSE @],
                         time |-> t]]

\* The hashes of heights lo..hi-1, ascending (the for loop of filter_block).
RECURSIVE Hashes(_, _)
Hashes(lo, hi) ==
    IF lo >= hi THEN <<>> ELSE <<BlockHash(lo)>> \o Hashes(lo + 1, hi)

\* FilterBlock with its loop starting at the stored height itself.
FilterBlock_FromStart(entry, latest_number, t) ==
    IF entry.number >= latest_number
    THEN [res |-> OkBlocks(<<>>), entry |-> entry]
    ELSE [res |-> OkBlocks(Hashes(entry.number, latest_number)
                           \o <<BlockHash(latest_number)>>),
          entry |-> [number |-> latest_number, time |-> t]]

\* filter_block returning the new hashes without storing the head.
FilterBlock_KeepsHeight(entry, latest_number, t) ==
    IF entry.number >= latest_number
    THEN [res |-> OkBlocks(<<>>), entry |-> entry]
    ELSE [res |-> OkBlocks(Hashes(entry.number + 1, latest_number)
                           \o <<BlockHash(latest_number)>>),
          entry |-> [number |-> entry.number, time |-> t]]


\* FilterBlock comparing with > where the code compares with >=.
FilterBlock_Strict(entry, latest_number, t) ==
    IF entry.number > latest_number
    THEN [res |-> OkBlocks(<<>>), entry |-> entry]
    ELSE [res |-> OkBlocks(Hashes(entry.number + 1, latest_number)
                           \o <<BlockHash(latest_number)>>),
          entry |-> [number |-> latest_number, time |-> t]]

\* filter_block once the backend answered: the reply and the entry afterwards.
FilterBlock(entry, latest_number, t) ==
    IF entry.number >= latest_number
    THEN [res |-> OkBlocks(<<>>), entry |-> entry]
    ELSE [res |-> OkBlocks(Hashes(entry.number + 1, latest_number)
                           \o <<BlockHash(latest_number)>>),
          entry |-> [number |-> latest_number, time |-> t]]

\* check_hubs keeping an entry that has been idle for exactly the window.
Retain_Inclusive(hub, t) ==
    [id \in {x \in DOMAIN hub : SatSub(t, hub[x].time) <= IDLE_WINDOW} |-> hub[id]]


\* check_hubs: the entries of one map that the sweep keeps.
Retain(hub, t) ==
    [id \in {x \in DOMAIN hub : SatSub(t, hub[x].time) < IDLE_WINDOW} |-> hub[id]]

\* ------------------------------------------------------------------ state
\* The instants the clock is observed at: every multiple of the sweep period
\* and the second before it.
Times == {t \in 0..MaxTime : t % SWEEP_PERIOD \in {0, SWEEP_PERIOD - 1}}

\* A sparser clock: the multiples of the idle window.
CoarseTimes == {t \in 0..MaxTime : t % IDLE_WINDOW = 0}

NoId == <<0, 0>>

\* The record of one handled call: its method, the id it names or was given,
\* the from_block sent (new_filter), the head and the instant while handling,
\* the reply, and whether the caller still held its receiver. A poll is
\* recorded as get_filter_changes whichever of the two methods sent it: the
\* command does not say.
Handled(op, id, from, res) ==
    [op |-> op, id |-> id, from |-> from, H |-> head, at |-> now, res |-> res,
     slot |-> "waiting"]

\* Number of registered filters.
Registered == Cardinality(DOMAIN logs_hub) + Cardinality(DOMAIN blocks_hub)

Init ==
    /\ head = 0
    /\ now = 0
    /\ nextTick = 0
    /\ logs_hub = EmptyMap
    /\ blocks_hub = EmptyMap
    /\ actor = "Running"
    /\ last = [op |-> "none", id |-> NoId, from |-> NoBlockId, H |-> 0, at |-> 0,
               res |-> OkBool(FALSE), slot |-> "waiting"]
    /\ queue = <<>>
    /\ inhand = <<>>
    /\ handles = "held"

\* An unwrap fails inside handle: the task unwinds and drops the FilterHub.
\* The reply slot is dropped with it, and the caller's rx.await.unwrap()
\* panics in turn: the call returns nothing.
Unwind(op, id) ==
    /\ actor' = "Panicked"
    /\ logs_hub' = EmptyMap
    /\ blocks_hub' = EmptyMap
    /\ last' = Handled(op, id, NoBlockId, Panic)
    /\ UNCHANGED <<head, now, nextTick>>

\* sender.send(reply).unwrap() when the caller has dropped its receiver: send
\* returns Err and the unwrap unwinds the task after the handler's work.
SendUnwrapFails(op, id) ==
    /\ actor' = "Panicked"
    /\ logs_hub' = EmptyMap
    /\ blocks_hub' = EmptyMap
    /\ last' = [Handled(op, id, NoBlockId, Panic) EXCEPT !.slot = "dropped"]
    /\ UNCHANGED <<head, now, nextTick>>

\* self.sender.send(cmd) when the receiver is gone: the front door maps the
\* send error to RpcError::Internal and returns it.
SendFails(op, id, from) ==
    /\ last' = Handled(op, id, from, Internal("channel closed"))
    /\ UNCHANGED <<head, now, nextTick, logs_hub, blocks_hub, actor>>

\* The state of the caller's oneshot receiver when the actor replies.
Slots == {"waiting", "dropped"}

\* The checks of new_filter before it sends the command: the error returned,
\* or Accepted.
Accepted == [kind |-> "Accepted", val |-> 0]

\* The checks of new_filter without the test for a to_block of 0.
new_filter_check_ZeroAllowed(raw) ==
    IF raw.from_block = Pending
    THEN InvalidFromBlockAndToBlockUnion
    ELSE IF raw.to_block = Earliest
    THEN Internal("Invalid to_block")
    ELSE Accepted


new_filter_check(raw) ==
    IF raw.from_block = Pending
    THEN InvalidFromBlockAndToBlockUnion
    ELSE IF raw.to_block = Earliest \/ raw.to_block = Num(0)
    THEN Internal("Invalid to_block")
    ELSE Accepted

\* new_filter returns the error of its checks without sending anything.
Rejected(raw) ==
    /\ last' = Handled("new_filter", NoId, raw.from_block, new_filter_check(raw))
    /\ UNCHANGED <<head, now, nextTick, logs_hub, blocks_hub, actor>>

\* handle(Command::NewLogs((filter, sender))) with id = random_id().
handle_NewLogs(filter, id, out, slot) ==
    IF out # "ok"
    THEN Unwind("new_filter", NoId)
    ELSE IF slot = "dropped"
    THEN SendUnwrapFails("new_filter", id)
    ELSE /\ logs_hub' = Insert(logs_hub, id,
                           [filter |-> [filter EXCEPT !.from_block =
                                           NewLogsFrom(@, head)],
                            time |-> now])
         /\ last' = Handled("new_filter", id, filter.from_block, OkId(id))
         /\ UNCHANGED <<head, now, nextTick, blocks_hub, actor>>

\* handle(NewBlocks) registering the id in the log-watch map as well.
handle_NewBlocks_BothMaps(id, out, slot) ==
    IF out # "ok"
    THEN Unwind("block_filter", NoId)
    ELSE IF slot = "dropped"
    THEN SendUnwrapFails("block_filter", id)
    ELSE /\ blocks_hub' = Insert(blocks_hub, id, [number |-> head, time |-> now])
         /\ logs_hub' = Insert(logs_hub, id,
                           [filter |-> [FromRaw(RawFilter(NoBlockId, NoBlockId, RawAny))
                                           EXCEPT !.from_block = NewLogsFrom(@, head)],
                            time |-> now])
         /\ last' = Handled("block_filter", id, NoBlockId, OkId(id))
         /\ UNCHANGED <<head, now, nextTick, actor>>


\* handle(Command::NewBlocks(sender)) with id = random_id().
handle_NewBlocks(id, out, slot) ==
    IF out # "ok"
    THEN Unwind("block_filter", NoId)
    ELSE IF slot = "dropped"
    THEN SendUnwrapFails("block_filter", id)
    ELSE /\ blocks_hub' = Insert(blocks_hub, id, [number |-> head, time |-> now])
         /\ last' = Handled("block_filter", id, NoBlockId, OkId(id))
         /\ UNCHANGED <<head, now, nextTick, logs_hub, actor>>

\* handle(Command::FilterRequest((id, sender))): impl_filter.
handle_FilterRequest(id, out, slot) ==
    IF id \in DOMAIN blocks_hub
    THEN IF out # "ok"
         THEN Unwind("get_filter_changes", id)
         ELSE IF slot = "dropped"
         THEN SendUnwrapFails("get_filter_changes", id)
         ELSE LET r == FilterBlock(blocks_hub[id], head, now)
              IN  /\ blocks_hub' = [blocks_hub EXCEPT ![id] = r.entry]
                  /\ last' = Handled("get_filter_changes", id, NoBlockId, r.res)
                  /\ UNCHANGED <<head, now, nextTick, logs_hub, actor>>
    ELSE IF id \in DOMAIN logs_hub
    THEN IF out = "none"
         THEN Unwind("get_filter_changes", id)
         ELSE IF slot = "dropped"
         THEN SendUnwrapFails("get_filter_changes", id)
         ELSE LET r == IF out = "err"
                       THEN [res |-> Internal("backend"), entry |-> logs_hub[id]]
                       ELSE FilterLogs(logs_hub[id], head, now)
              IN  /\ logs_hub' = IF r.res.kind # "Logs"
                                 THEN Remove(logs_hub, id)
                                 ELSE [logs_hub EXCEPT ![id] = r.entry]
                  /\ last' = Handled("get_filter_changes", id, NoBlockId, r.res)
                  /\ UNCHANGED <<head, now, nextTick, blocks_hub, actor>>
    ELSE IF ~fits_word(id)
    THEN Unwind("get_filter_changes", id)
    ELSE IF slot = "dropped"
    THEN SendUnwrapFails("get_filter_changes", id)
    ELSE /\ last' = Handled("get_filter_changes", id, NoBlockId, CannotFindFilterId(id[2]))
         /\ UNCHANGED <<head, now, nextTick, logs_hub, blocks_hub, actor>>

\* handle(Command::Uninstall((id, sender))).
handle_Uninstall(id, slot) ==
    IF slot = "dropped"
    THEN SendUnwrapFails("uninstall_filter", id)
    ELSE /\ LET inBlocks == id \in DOMAIN blocks_hub
                inLogs == id \in DOMAIN logs_hub
            IN  /\ blocks_hub' = Remove(blocks_hub, id)
                /\ logs_hub' = IF inBlocks THEN logs_hub ELSE Remove(logs_hub, id)
                /\ last' = Handled("uninstall_filter", id, NoBlockId,
                                   OkBool(inBlocks \/ inLogs))
         /\ UNCHANGED <<head, now, nextTick, actor>>

\* A call of new_filter whose command the actor handles before any other
\* call is made.
new_filter(raw, id, out, slot) ==
    IF new_filter_check(raw) # Accepted
    THEN Rejected(raw)
    ELSE IF actor # "Running"
    THEN SendFails("new_filter", NoId, raw.from_block)
    ELSE handle_NewLogs(FromRaw(raw), id, out, slot)

\* A call of block_filter, handled at once.
block_filter(id, out, slot) ==
    IF actor # "Running"
    THEN SendFails("block_filter", NoId, NoBlockId)
    ELSE handle_NewBlocks(id, out, slot)

\* A call of get_filter_changes, handled at once.
get_filter_changes(id, out, slot) ==
    IF actor # "Running"
    THEN SendFails("get_filter_changes", id, NoBlockId)
    ELSE handle_FilterRequest(id, out, slot)

\* A call of uninstall_filter, handled at once.
uninstall_filter(id, slot) ==
    IF actor # "Running"
    THEN SendFails("uninstall_filter", id, NoBlockId)
    ELSE handle_Uninstall(id, slot)

\* A select! that polls its branches while handle runs.
Selecting_Always == TRUE

\* FilterHub::run is at its select!, not inside handle.
Selecting == inhand = <<>>

\* time_internal.tick() is ready: check_hubs.
check_hubs ==
    /\ actor = "Running"
    /\ Selecting
    /\ now >= nextTick
    /\ nextTick' = nextTick + SWEEP_PERIOD
    /\ blocks_hub' = Retain(blocks_hub, now)
    /\ logs_hub' = Retain(logs_hub, now)
    /\ UNCHANGED <<head, now, actor, last>>

\* Time passes while the actor waits in select!.
AdvanceTime(t) ==
    /\ actor = "Running"
    /\ t > now
    /\ now' = t
    /\ UNCHANGED <<head, nextTick, logs_hub, blocks_hub, actor, last>>

\* The chain produces its next block.
ProduceBlock(max) ==
    /\ actor = "Running"
    /\ head < max
    /\ head' = head + 1
    /\ UNCHANGED <<now, nextTick, logs_hub, blocks_hub, actor, last>>

\* Callers register a filter only while fewer than cap are registered.
Admit(cap) == Registered < cap

\* A failing header lookup unwinds handle whatever filter and id the
\* command carries, so one accepted filter stands for all of them.
Failures == AdapterOutcomes \ {"ok"}

\* The calls whose reply reaches a dead actor's queue or a dropped receiver
\* end the same way whatever filter they carry.
Next ==
    \/ /\ \E raw \in RawFilters, id \in U256s :
             Admit(MaxFilters) /\ new_filter(raw, id, "ok", "waiting")
       /\ UNCHANGED chan
    \/ /\ \E raw \in PlainFilters, out \in Failures : new_filter(raw, NoId, out, "waiting")
       /\ UNCHANGED chan
    \/ /\ \E raw \in PlainFilters, id \in U256s : new_filter(raw, id, "ok", "dropped")
       /\ UNCHANGED chan
    \/ /\ \E id \in U256s : Admit(MaxFilters) /\ block_filter(id, "ok", "waiting")
       /\ UNCHANGED chan
    \/ /\ \E out \in Failures : block_filter(NoId, out, "waiting")
       /\ UNCHANGED chan
    \/ /\ \E id \in U256s : block_filter(id, "ok", "dropped")
       /\ UNCHANGED chan
    \/ /\ \E id \in U256s, out \in AdapterOutcomes, slot \in Slots :
             get_filter_changes(id, out, slot)
       /\ UNCHANGED chan
    \/ /\ \E id \in U256s, slot \in Slots : uninstall_filter(id, slot)
       /\ UNCHANGED chan
    \/ check_hubs /\ UNCHANGED chan
    \/ (\E t \in CoarseTimes : AdvanceTime(t)) /\ UNCHANGED chan
    \/ ProduceBlock(MaxHead) /\ UNCHANGED chan

Spec == Init /\ [][Next]_vars

\* The same actor with plain filters, a short chain and a fine clock.
NextSweep ==
    \/ /\ \E raw \in PlainFilters, id \in U256s :
             Admit(MaxSweepFilters) /\ new_filter(raw, id, "ok", "waiting")
       /\ UNCHANGED chan
    \/ /\ \E raw \in PlainFilters, out \in Failures : new_filter(raw, NoId, out, "waiting")
       /\ UNCHANGED chan
    \/ /\ \E raw \in PlainFilters, id \in U256s : new_filter(raw, id, "ok", "dropped")
       /\ UNCHANGED chan
    \/ /\ \E id \in U256s : Admit(MaxSweepFilters) /\ block_filter(id, "ok", "waiting")
       /\ UNCHANGED chan
    \/ /\ \E out \in Failures : block_filter(NoId, out, "waiting")
       /\ UNCHANGED chan
    \/ /\ \E id \in U256s : block_filter(id, "ok", "dropped")
       /\ UNCHANGED chan
    \/ /\ \E id \in U256s, out \in AdapterOutcomes, slot \in Slots :
             get_filter_changes(id, out, slot)
       /\ UNCHANGED chan
    \/ /\ \E id \in U256s, slot \in Slots : uninstall_filter(id, slot)
       /\ UNCHANGED chan
    \/ check_hubs /\ UNCHANGED chan
    \/ (\E t \in Times : AdvanceTime(t)) /\ UNCHANGED chan
    \/ ProduceBlock(MaxSweepHead) /\ UNCHANGED chan

SpecSweep == Init /\ [][NextSweep]_vars

\* ------------------------------------------------------- the command queue
\* The commands of the channel. filter and id are meaningful for the
\* commands that carry them.
NoFilter == FromRaw(RawFilter(NoBlockId, NoBlockId, RawAny))

Command_NewLogs(filter) == [cmd |-> "NewLogs", filter |-> filter, id |-> NoId]
Command_NewBlocks == [cmd |-> "NewBlocks", filter |-> NoFilter, id |-> NoId]
Command_FilterRequest(id) == [cmd |-> "FilterRequest", filter |-> NoFilter, id |-> id]
Command_Uninstall(id) == [cmd |-> "Uninstall", filter |-> NoFilter, id |-> id]

\* get_filter_logs sending a command of another kind.
get_filter_logs_command_Uninstall(id) == Command_Uninstall(id)


\* The command each polling method builds.
get_filter_logs_command(id) == Command_FilterRequest(id)
get_filter_changes_command(id) == Command_FilterRequest(id)

\* A send on a channel without a capacity.
Enqueue_Unbounded(c) ==
    /\ queue' = Append(queue, c)
    /\ UNCHANGED <<head, now, nextTick, logs_hub, blocks_hub, actor, last, inhand, handles>>


\* self.sender.send(c).await on a live channel: the send completes once the
\* channel has room.
Enqueue(c) ==
    /\ Len(queue) < CHANNEL_CAPACITY
    /\ queue' = Append(queue, c)
    /\ UNCHANGED <<head, now, nextTick, logs_hub, blocks_hub, actor, last, inhand, handles>>

\* The front door of new_filter up to the end of its send.
new_filter_send(raw) ==
    /\ handles = "held"
    /\ IF new_filter_check(raw) # Accepted
       THEN Rejected(raw) /\ UNCHANGED chan
       ELSE IF actor # "Running"
       THEN SendFails("new_filter", NoId, raw.from_block) /\ UNCHANGED chan
       ELSE Enqueue(Command_NewLogs(FromRaw(raw)))

\* The front door of block_filter up to the end of its send.
block_filter_send ==
    /\ handles = "held"
    /\ IF actor # "Running"
       THEN SendFails("block_filter", NoId, NoBlockId) /\ UNCHANGED chan
       ELSE Enqueue(Command_NewBlocks)

\* The front door of get_filter_logs up to the end of its send.
get_filter_logs_send(id) ==
    /\ handles = "held"
    /\ IF actor # "Running"
       THEN SendFails("get_filter_changes", id, NoBlockId) /\ UNCHANGED chan
       ELSE Enqueue(get_filter_logs_command(id))

\* The front door of get_filter_changes up to the end of its send.
get_filter_changes_send(id) ==
    /\ handles = "held"
    /\ IF actor # "Running"
       THEN SendFails("get_filter_changes", id, NoBlockId) /\ UNCHANGED chan
       ELSE Enqueue(get_filter_changes_command(id))

\* The front door of uninstall_filter up to the end of its send.
uninstall_filter_send(id) ==
    /\ handles = "held"
    /\ IF actor # "Running"
       THEN SendFails("uninstall_filter", id, NoBlockId) /\ UNCHANGED chan
       ELSE Enqueue(Command_Uninstall(id))

\* FilterHub::handle: the arm of the command c.
handle(c, id, out, slot) ==
    CASE c.cmd = "NewLogs" -> handle_NewLogs(c.filter, id, out, slot)
      [] c.cmd = "NewBlocks" -> handle_NewBlocks(id, out, slot)
      [] c.cmd = "FilterRequest" -> handle_FilterRequest(c.id, out, slot)
      [] c.cmd = "Uninstall" -> handle_Uninstall(c.id, slot)

\* A receiver that yields the command sent last.
recv_Lifo(id, out, slot) ==
    /\ actor = "Running"
    /\ Selecting
    /\ queue # <<>>
    /\ handle(queue[Len(queue)], id, out, slot)
    /\ queue' = IF actor' = "Running" THEN SubSeq(queue, 1, Len(queue) - 1) ELSE <<>>
    /\ UNCHANGED <<inhand, handles>>


\* self.recv.recv() yields Some(cmd): handle(cmd). With the task the
\* receiver is dropped, and the queued commands with it.
recv(id, out, slot) ==
    /\ actor = "Running"
    /\ Selecting
    /\ queue # <<>>
    /\ handle(Head(queue), id, out, slot)
    /\ queue' = IF actor' = "Running" THEN Tail(queue) ELSE <<>>
    /\ UNCHANGED <<inhand, handles>>

\* self.recv.recv() yields Some(cmd): run enters handle(cmd), whose Chain
\* Reader calls it then awaits.
take ==
    /\ actor = "Running"
    /\ Selecting
    /\ queue # <<>>
    /\ inhand' = <<Head(queue)>>
    /\ queue' = Tail(queue)
    /\ UNCHANGED <<head, now, nextTick, logs_hub, blocks_hub, actor, last, handles>>

\* The Chain Reader answers and handle(cmd) runs to its end.
finish(id, out, slot) ==
    /\ actor = "Running"
    /\ inhand # <<>>
    /\ handle(inhand[1], id, out, slot)
    /\ inhand' = <<>>
    /\ queue' = IF actor' = "Running" THEN queue ELSE <<>>
    /\ UNCHANGED handles

\* The last clone of the sender is dropped with the AxonWeb3RpcFilter.
drop_handles ==
    /\ handles = "held"
    /\ handles' = "dropped"
    /\ UNCHANGED <<head, now, nextTick, logs_hub, blocks_hub, actor, last, queue, inhand>>

\* self.recv.recv() yields None: the loop breaks, run returns and the
\* FilterHub is dropped.
stop ==
    /\ actor = "Running"
    /\ Selecting
    /\ handles = "dropped"
    /\ queue = <<>>
    /\ actor' = "Stopped"
    /\ logs_hub' = EmptyMap
    /\ blocks_hub' = EmptyMap
    /\ UNCHANGED <<head, now, nextTick, last, queue, inhand, handles>>

\* Callers send only while fewer than max commands wait.
Room(max) == Len(queue) < max

\* The create commands waiting in the queue or in hand.
QueuedCreates ==
    LET sent == queue \o inhand
    IN  Cardinality({i \in DOMAIN sent : sent[i].cmd \in {"NewLogs", "NewBlocks"}})

\* The filters sent where the queue is modelled: a plain one, one with
\* from_block pending, one with to_block earliest and one with to_block 0.
QueueFilters ==
    PlainFilters \cup {RawFilter(Pending, NoBlockId, RawAny),
                       RawFilter(NoBlockId, Earliest, RawAny),
                       RawFilter(NoBlockId, Num(0), RawAny)}

\* The actor with its queue: calls are sent, and received one at a time,
\* within the first sweep period.
NextQueue ==
    \/ \E raw \in QueueFilters :
          /\ new_filter_check(raw) = Accepted
                => Room(MaxQueue) /\ Admit(MaxQueueFilters - QueuedCreates)
          /\ new_filter_send(raw)
    \/ Room(MaxQueue) /\ Admit(MaxQueueFilters - QueuedCreates) /\ block_filter_send
    \/ \E id \in U256s : Room(MaxQueue) /\ get_filter_logs_send(id)
    \/ \E id \in U256s : Room(MaxQueue) /\ get_filter_changes_send(id)
    \/ \E id \in U256s : Room(MaxQueue) /\ uninstall_filter_send(id)
    \/ \E id \in U256s, out \in AdapterOutcomes, slot \in Slots : recv(id, out, slot)
    \/ drop_handles
    \/ stop
    \/ check_hubs /\ UNCHANGED chan
    \/ ProduceBlock(MaxQueueHead) /\ UNCHANGED chan

SpecQueue == Init /\ [][NextQueue]_vars

\* The actor with the waits of handle made visible: a command is taken,
\* the chain and the clock move while its Chain Reader calls are awaited,
\* and the command is finished. Callers register block filters only.
NextAwait ==
    \/ Room(MaxAwaitQueue) /\ Admit(MaxQueueFilters - QueuedCreates) /\ block_filter_send
    \/ \E id \in U256s : Room(MaxAwaitQueue) /\ get_filter_changes_send(id)
    \/ \E id \in U256s : Room(MaxAwaitQueue) /\ uninstall_filter_send(id)
    \/ take
    \/ \E id \in U256s, out \in AdapterOutcomes, slot \in Slots : finish(id, out, slot)
    \/ check_hubs /\ UNCHANGED chan
    \/ (\E t \in CoarseTimes : AdvanceTime(t)) /\ UNCHANGED chan
    \/ ProduceBlock(MaxQueueHead) /\ UNCHANGED chan

SpecAwait == Init /\ [][NextAwait]_vars

\* The id the callers of the full-queue specification name.
CapacityId == <<0, 1>>

\* The actor with callers that send as fast as the channel lets them: the
\* queue fills to its capacity while the chain grows, and the actor takes
\* one command at a time.
NextCapacity ==
    \/ uninstall_filter_send(CapacityId)
    \/ \E slot \in Slots : recv(NoId, "ok", slot)
    \/ ProduceBlock(MaxQueueHead) /\ UNCHANGED chan

SpecCapacity == Init /\ [][NextCapacity]_vars

\* ---------------------------------------------------------------- claims
\* A step in which the actor handles one call: the chain and the clock stand
\* still, and last' describes the call.
HandleStep == head' = head /\ now' = now /\ nextTick' = nextTick

\* The step handles a poll of id, and the backend answered it.
PollStep(id) ==
    /\ HandleStep
    /\ last'.op = "get_filter_changes"
    /\ last'.id = id
    /\ last'.res.kind \notin {"Panic", "Internal"}

\* The step handles a new_filter call that the front door let through and
\* that got its id.
NewLogsStep ==
    /\ HandleStep
    /\ last'.op = "new_filter"
    /\ last'.res.kind = "Id"

\* The numeric value of a stored cursor.
Cursor(entry) == entry.filter.from_block.n

\* The hashes of the heights lo..hi, ascending.
HashesOf(lo, hi) == [i \in 1..(hi - lo + 1) |-> BlockHash(lo + i - 1)]

\* The matching logs of the heights lo..hi, in ascending block order.
RECURSIVE MatchingLogs(_, _, _)
MatchingLogs(filter, lo, hi) ==
    IF lo > hi THEN <<>> ELSE ExtendLogs(filter, lo) \o MatchingLogs(filter, lo + 1, hi)

\* C1: handling NewLogs with from_block = Number(n), n below the head H read
\* while handling, stores the entry with cursor Number(n), not Number(H+1).
C1_PastFromBlockKept ==
    [][(NewLogsStep /\ last'.from.tag = "Num" /\ last'.from.n < head)
        => logs_hub'[last'.id].filter.from_block = Num(last'.from.n)]_vars

\* C2: a log filter registered with from_block = Number(n), n below the head
\* H, to_block absent and H - n within the maximum range: while the head
\* stays at H the first poll returns exactly the matching logs of n..H and
\* leaves the cursor at H+1, and a poll right after a successful poll returns
\* an empty sequence.
C2_CatchUpScenario ==
    [][\A id \in U256s :
        (/\ PollStep(id)
         /\ id \in DOMAIN logs_hub
         /\ id \notin DOMAIN blocks_hub
         /\ logs_hub[id].filter.to_block = NoBlockId
         /\ last.id = id
         /\ last.H = head)
        => /\ (/\ last.op = "new_filter"
               /\ last.res.kind = "Id"
               /\ last.from.tag = "Num"
               /\ last.from.n < head
               /\ head - last.from.n <= MaxRange)
              => /\ last'.res = OkLogs(MatchingLogs(logs_hub[id].filter, last.from.n, head))
                 /\ id \in DOMAIN logs_hub'
                 /\ Cursor(logs_hub'[id]) = head + 1
           /\ (last.op = "get_filter_changes" /\ last.res.kind = "Logs")
              => last'.res = OkLogs(<<>>)]_vars

\* C3: every poll that replies successfully, and every creation, sets the
\* entry's last_access to the current time.
C3_LastAccessRefreshed ==
    [][/\ \A id \in U256s :
            PollStep(id) =>
               /\ last'.res.kind = "Blocks" => blocks_hub'[id].time = now
               /\ last'.res.kind = "Logs" => logs_hub'[id].time = now
       /\ NewLogsStep => logs_hub'[last'.id].time = now
       /\ (HandleStep /\ last'.op = "block_filter" /\ last'.res.kind = "Id")
             => blocks_hub'[last'.id].time = now]_vars

\* C4: a filter polled successfully less than 40 seconds after its previous
\* access is not removed by a sweep tick that occurs less than 40 seconds
\* after that poll.
C4_PolledFilterSurvivesSweep ==
    [][(/\ nextTick' # nextTick
        /\ last.op = "get_filter_changes"
        /\ now - last.at < IDLE_WINDOW)
        => /\ (/\ last.res.kind = "Blocks"
               /\ last.id \in DOMAIN blocks_hub
               /\ last.at - blocks_hub[last.id].time < IDLE_WINDOW)
              => last.id \in DOMAIN blocks_hub'
           /\ (/\ last.res.kind = "Logs"
               /\ last.id \in DOMAIN logs_hub
               /\ last.at - logs_hub[last.id].time < IDLE_WINDOW)
              => last.id \in DOMAIN logs_hub']_vars

\* C5: the stored cursor of a log-watch entry never decreases over a poll.
C5_CursorMonotonic ==
    [][\A id \in U256s :
        (PollStep(id) /\ id \in DOMAIN logs_hub /\ id \in DOMAIN logs_hub')
        => Cursor(logs_hub'[id]) >= Cursor(logs_hub[id])]_vars

\* C6: a poll of an id that is in neither map replies FilterNotFound(id),
\* leaves the registry unchanged and the actor running.
C6_UnknownIdNotFound ==
    [][\A id \in U256s :
        (/\ HandleStep
         /\ last'.op = "get_filter_changes"
         /\ last'.id = id
         /\ id \notin DOMAIN blocks_hub
         /\ id \notin DOMAIN logs_hub)
        => /\ last'.res.kind = "CannotFindFilterId"
           /\ <<0, last'.res.val>> = id
           /\ UNCHANGED <<logs_hub, blocks_hub>>
           /\ actor' = "Running"]_vars

\* C7: a log-watch poll fails with RangeTooLarge(start, end, max) exactly
\* when end - start exceeds the maximum; the failure removes the entry, and
\* the next poll of the same id fails with FilterNotFound.
C7_RangeTooLargeInvalidates ==
    [][\A id \in U256s :
        /\ (PollStep(id) /\ id \in DOMAIN logs_hub /\ id \notin DOMAIN blocks_hub)
           => LET start == StartOf(logs_hub[id].filter, head)
                  end == EndOf(logs_hub[id].filter, head)
              IN  /\ (last'.res.kind = "InvalidBlockRange") <=> (end - start > MaxRange)
                  /\ last'.res.kind = "InvalidBlockRange"
                     => /\ last'.res.val = <<start, end, MaxRange>>
                        /\ id \notin DOMAIN logs_hub'
        /\ (/\ HandleStep
            /\ last.op = "get_filter_changes"
            /\ last.res.kind = "InvalidBlockRange"
            /\ last.id = id
            /\ last'.op = "get_filter_changes"
            /\ last'.id = id)
           => last'.res.kind = "CannotFindFilterId"]_vars

\* C7, without its last part: the poll fails exactly when end - start
\* exceeds the maximum, and the failure removes the entry.
C7_RangeCheckOnly ==
    [][\A id \in U256s :
        (PollStep(id) /\ id \in DOMAIN logs_hub /\ id \notin DOMAIN blocks_hub)
        => LET start == StartOf(logs_hub[id].filter, head)
               end == EndOf(logs_hub[id].filter, head)
           IN  /\ (last'.res.kind = "InvalidBlockRange") <=> (end - start > MaxRange)
               /\ last'.res.kind = "InvalidBlockRange"
                  => /\ last'.res.val = <<start, end, MaxRange>>
                     /\ id \notin DOMAIN logs_hub']_vars

\* C8: a block-watch poll with stored height S below the head height L
\* returns exactly the hashes of S+1..L in ascending order and sets the
\* stored height to L (the backend answering).
C8_BlockPollReturnsNewHashes ==
    [][\A id \in U256s :
        (PollStep(id) /\ id \in DOMAIN blocks_hub /\ blocks_hub[id].number < head)
        => /\ last'.res = OkBlocks(HashesOf(blocks_hub[id].number + 1, head))
           /\ Len(last'.res.val) = head - blocks_hub[id].number
           /\ last'.res.val[Len(last'.res.val)] = BlockHash(head)
           /\ blocks_hub'[id].number = head]_vars

C8_Witness ==
    /\ last.op = "get_filter_changes"
    /\ last.res.kind = "Blocks"
    /\ Len(last.res.val) >= 2
    /\ last.id \in DOMAIN blocks_hub
    /\ blocks_hub[last.id].number = head
    /\ last.H = head

\* C9: a block-watch poll with stored height S at or above the head returns
\* an empty hash sequence and leaves the stored height unchanged.
C9_BlockPollNothingNew ==
    [][\A id \in U256s :
        (PollStep(id) /\ id \in DOMAIN blocks_hub /\ blocks_hub[id].number >= head)
        => /\ last'.res = OkBlocks(<<>>)
           /\ blocks_hub'[id].number = blocks_hub[id].number]_vars

C9_Witness ==
    /\ last.op = "get_filter_changes"
    /\ last.res = OkBlocks(<<>>)
    /\ last.id \in DOMAIN blocks_hub
    /\ blocks_hub[last.id].number = head
    /\ last.H = head
    /\ head >= 1

\* C10: handling NewLogs with from_block absent, Latest or Pending stores
\* the entry with cursor Number(H+1), H being the head read while handling.
C10_ForwardOnlyFromBlock ==
    [][/\ \A f \in {NoBlockId, Latest, Pending} : NewLogsFrom(f, head) = Num(head + 1)
       /\ (NewLogsStep /\ last'.from.tag \in {"None", "Latest", "Pending"})
          => logs_hub'[last'.id].filter.from_block = Num(head + 1)]_vars

C10_Witness ==
    /\ last.op = "new_filter"
    /\ last.res.kind = "Id"
    /\ last.from = Latest
    /\ last.H = head
    /\ head >= 1
    /\ last.id \in DOMAIN logs_hub
    /\ logs_hub[last.id].filter.from_block = Num(head + 1)

\* A step in which the sweep tick fires.
SweepStep == nextTick' # nextTick

\* What a sweep at instant t makes of one map: the entries idle for less
\* than the window stay as they are, the others go, none appears.
Swept(hub, hubAfter, t) ==
    /\ DOMAIN hubAfter \subseteq DOMAIN hub
    /\ \A id \in DOMAIN hub :
          IF t - hub[id].time >= IDLE_WINDOW
          THEN id \notin DOMAIN hubAfter
          ELSE id \in DOMAIN hubAfter /\ hubAfter[id] = hub[id]

\* C11: a sweep tick removes from both maps exactly the entries whose idle
\* time now - time is 40 seconds or more and keeps, unchanged, every entry
\* idle for less than 40 seconds.
C11_SweepEvictsExactlyIdle ==
    [][SweepStep => /\ Swept(blocks_hub, blocks_hub', now)
                    /\ Swept(logs_hub, logs_hub', now)]_vars

\* A filter registered at instant 0 by the last call is gone at instant 40
\* once the sweep due then has run.
C11_Witness ==
    /\ actor = "Running"
    /\ now = IDLE_WINDOW
    /\ nextTick > now
    /\ last.op \in {"new_filter", "block_filter"}
    /\ last.res.kind = "Id"
    /\ last.at = 0
    /\ last.id \notin DOMAIN blocks_hub \cup DOMAIN logs_hub

\* The step handles an uninstall of id and replies to it.
UninstallStep(id) ==
    /\ HandleStep
    /\ last'.op = "uninstall_filter"
    /\ last'.id = id
    /\ last'.res.kind = "Bool"

\* C12: handling Uninstall(id) replies true exactly when id was a key of the
\* block-watch map or of the log-watch map just before, and afterwards id is
\* a key of neither map.
C12_UninstallRemovesBoth ==
    [][\A id \in U256s :
        UninstallStep(id)
        => /\ last'.res = OkBool(id \in DOMAIN blocks_hub \/ id \in DOMAIN logs_hub)
           /\ id \notin DOMAIN blocks_hub'
           /\ id \notin DOMAIN logs_hub']_vars

\* The same statement for an id that is not a key of both maps.
C12_UninstallUnshared ==
    [][\A id \in U256s :
        (UninstallStep(id) /\ ~(id \in DOMAIN blocks_hub /\ id \in DOMAIN logs_hub))
        => /\ last'.res = OkBool(id \in DOMAIN blocks_hub \/ id \in DOMAIN logs_hub)
           /\ id \notin DOMAIN blocks_hub'
           /\ id \notin DOMAIN logs_hub']_vars

\* id is a key of both maps.
Shared(id, blocks, logs) == id \in DOMAIN blocks /\ id \in DOMAIN logs

\* C13 as stated: in every reachable state no id is a key of both maps.
C13_NoSharedId == \A id \in U256s : ~Shared(id, blocks_hub, logs_hub)

\* C13: an id becomes a key of both maps only in a step that handles a
\* create command whose random id is already a key of the other map; no
\* poll, uninstall, sweep or create with an unused id makes an id shared.
C13_SharedOnlyByCollision ==
    [][\A id \in U256s :
        (Shared(id, blocks_hub', logs_hub') /\ ~Shared(id, blocks_hub, logs_hub))
        => /\ HandleStep
           /\ last'.res = OkId(id)
           /\ \/ last'.op = "new_filter" /\ id \in DOMAIN blocks_hub
              \/ last'.op = "block_filter" /\ id \in DOMAIN logs_hub]_vars

\* The last call registered a filter under an id the other map holds too.
C13_Witness ==
    /\ last.res.kind = "Id"
    /\ Shared(last.id, blocks_hub, logs_hub)
    /\ actor = "Running"

\* The step handles, for a caller that waits for the reply, a create command
\* or a poll of a registered id: the commands whose handling calls the Chain
\* Reader.
ChainReaderStep ==
    /\ HandleStep
    /\ actor = "Running"
    /\ last'.slot = "waiting"
    /\ \/ last'.op \in {"new_filter", "block_filter"} /\ last'.res.kind \in {"Id", "Panic"}
       \/ /\ last'.op = "get_filter_changes"
          /\ last'.id \in DOMAIN blocks_hub \cup DOMAIN logs_hub

\* C14: whatever the Chain Reader answers (a value, an error, or no block)
\* while a create command or a poll is handled, the actor is Running
\* afterwards.
C14_ActorSurvivesBackendFailure ==
    [][ChainReaderStep => actor' = "Running"]_vars

\* C15: when the caller has dropped its receiver before the actor replies,
\* the actor is Running after handling the command.
C15_AbandonedReplyIgnored ==
    [][(HandleStep /\ actor = "Running" /\ last'.slot = "dropped")
        => actor' = "Running"]_vars

\* The step is a call that got past the front door's own checks.
SentCallStep ==
    /\ HandleStep
    /\ last'.op # "none"
    /\ last'.res.kind # "InvalidFromBlockAndToBlockUnion"
    /\ last'.res # Internal("Invalid to_block")

\* C16: a call made while the actor is gone, and a call whose command the
\* actor fails to answer while the caller waits, both return an Internal
\* error to the caller.
C16_TransportFailureIsInternal ==
    [][(/\ SentCallStep
        /\ last'.slot = "waiting"
        /\ (actor # "Running" \/ actor' # "Running"))
        => last'.res.kind = "Internal"]_vars

\* The first half alone: a call made while the actor is gone returns an
\* Internal error and changes nothing else.
C16_ClosedQueueIsInternal ==
    [][(SentCallStep /\ actor # "Running")
        => /\ last'.res.kind = "Internal"
           /\ UNCHANGED <<logs_hub, blocks_hub, actor, queue>>]_vars

\* C17: new_filter with from_block = Pending, or to_block = Earliest or
\* Number(0), returns an error and leaves the queue and both maps as they
\* were; with any other criteria it puts exactly one NewLogs command, with
\* the converted filter, at the end of the queue and changes nothing else.
C17_InvalidCriteriaNotEnqueued ==
    [][\A raw \in QueueFilters :
        (actor = "Running" /\ new_filter_send(raw))
        => IF \/ raw.from_block = Pending
              \/ raw.to_block = Earliest
              \/ raw.to_block = Num(0)
           THEN /\ last'.op = "new_filter"
                /\ last'.res.kind \in {"InvalidFromBlockAndToBlockUnion", "Internal"}
                /\ UNCHANGED <<queue, logs_hub, blocks_hub, actor>>
           ELSE /\ queue' = Append(queue, Command_NewLogs(FromRaw(raw)))
                /\ UNCHANGED <<logs_hub, blocks_hub, actor, last>>]_vars

\* A new_filter call has just been rejected for its to_block while the
\* command of an accepted one waits in the queue.
C17_Witness ==
    /\ actor = "Running"
    /\ last.op = "new_filter"
    /\ last.res = Internal("Invalid to_block")
    /\ Len(queue) = 1
    /\ queue[1].cmd = "NewLogs"
    /\ Registered = 0

\* The step handles, for a waiting caller, a poll of the log filter id
\* during which a Chain Reader call fails: the poll ends with the backend's
\* error or with no reply at all.
FailedLogPollStep(id) ==
    /\ HandleStep
    /\ actor = "Running"
    /\ last'.op = "get_filter_changes"
    /\ last'.id = id
    /\ last'.slot = "waiting"
    /\ id \in DOMAIN logs_hub
    /\ id \notin DOMAIN blocks_hub
    /\ last'.res \in {Internal("backend"), Panic}

\* C18: a log-watch poll during which a Chain Reader call fails replies with
\* the backend error, removes the entry and leaves the actor Running; the
\* poll of the same id that follows it replies CannotFindFilterId.
C18_FailedLogPollInvalidates ==
    [][\A id \in U256s :
        /\ FailedLogPollStep(id)
           => /\ last'.res = Internal("backend")
              /\ id \notin DOMAIN logs_hub'
              /\ actor' = "Running"
        /\ (/\ last.op = "get_filter_changes"
            /\ last.id = id
            /\ last.res = Internal("backend")
            /\ id \notin DOMAIN blocks_hub
            /\ HandleStep
            /\ last'.op = "get_filter_changes"
            /\ last'.id = id
            /\ last'.slot = "waiting")
           => last'.res.kind = "CannotFindFilterId"]_vars

\* The first part for a Chain Reader call that returns an error: the reply
\* is that error, the entry is removed and the actor is Running.
C18_BackendErrInvalidates ==
    [][\A id \in U256s :
        (FailedLogPollStep(id) /\ last'.res # Panic)
        => /\ id \notin DOMAIN logs_hub'
           /\ blocks_hub' = blocks_hub
           /\ actor' = "Running"]_vars

\* C19: get_filter_logs(id) and get_filter_changes(id) are the same
\* operation: every step one of them can take from a state is a step of the
\* other, so the command the actor receives, and with it the reply and the
\* successor registry, do not depend on which method was called.
C19_PollMethodsCoincide ==
    [][\A id \in U256s :
        get_filter_logs_send(id) <=> get_filter_changes_send(id)]_vars

\* A poll command waits in the queue for a registered log filter.
C19_Witness ==
    /\ actor = "Running"
    /\ queue # <<>>
    /\ Head(queue).cmd = "FilterRequest"
    /\ Head(queue).id \in DOMAIN logs_hub

\* C20: handling NewLogs with from_block = Number(n), n at or above the head
\* H read while handling, or with from_block = Earliest, stores the entry
\* with cursor Number(H+1).
C20_FutureOrEarliestPinned ==
    [][(/\ NewLogsStep
        /\ \/ last'.from = Earliest
           \/ last'.from.tag = "Num" /\ last'.from.n >= head)
        => logs_hub'[last'.id].filter.from_block = Num(head + 1)]_vars

\* The part for from_block = Earliest alone.
C20_EarliestPinned ==
    [][(NewLogsStep /\ last'.from = Earliest)
        => logs_hub'[last'.id].filter.from_block = Num(head + 1)]_vars

\* The step handles a poll of the log filter id and replies with logs.
LogPollStep(id) ==
    /\ PollStep(id)
    /\ id \in DOMAIN logs_hub
    /\ id \notin DOMAIN blocks_hub
    /\ last'.res.kind = "Logs"

\* The last height a poll of the filter may scan while the head is at H:
\* its to_block if that is a number below H, else H.
LastHeight(filter, H) ==
    IF filter.to_block.tag = "Num" /\ filter.to_block.n < H
    THEN filter.to_block.n
    ELSE H

\* C21: a log-watch poll that replies with logs, its cursor start at or
\* below the head, sets the cursor to Number(end + 1), end the lesser of the
\* resolved to_block and the head, and returns the matching logs of the
\* heights start..end in ascending order; with start above the head it
\* returns no log and leaves cursor, criteria and registration as they were.
C21_PollAdvancesPastEnd ==
    [][\A id \in U256s :
        LogPollStep(id)
        => LET start == Cursor(logs_hub[id])
               end == LastHeight(logs_hub[id].filter, head)
           IN  /\ id \in DOMAIN logs_hub'
               /\ IF start <= head
                  THEN /\ logs_hub'[id].filter.from_block = Num(end + 1)
                       /\ last'.res = OkLogs(MatchingLogs(logs_hub[id].filter, start, end))
                  ELSE /\ last'.res = OkLogs(<<>>)
                       /\ logs_hub'[id].filter = logs_hub[id].filter]_vars

\* The last call was a poll that returned logs and left the cursor one
\* above the head it read.
C21_Witness ==
    /\ last.op = "get_filter_changes"
    /\ last.res.kind = "Logs"
    /\ last.res.val # <<>>
    /\ last.id \in DOMAIN logs_hub
    /\ last.id \notin DOMAIN blocks_hub
    /\ last.H > 0
    /\ Cursor(logs_hub[last.id]) = last.H + 1

\* The heights of the logs in a reply.
Heights(logs) == {logs[i].block : i \in DOMAIN logs}

\* C22: no log returned by a log-watch poll comes from a block above the
\* filter's to_block or above the head read by that poll.
C22_NoScanAboveEnd ==
    [][\A id \in U256s :
        LogPollStep(id)
        => \A h \in Heights(last'.res.val) :
              /\ h <= head
              /\ logs_hub[id].filter.to_block.tag = "Num"
                 => h <= logs_hub[id].filter.to_block.n]_vars

\* The last poll returned logs up to the filter's to_block while the head
\* was above it.
C22_Witness ==
    /\ last.op = "get_filter_changes"
    /\ last.res.kind = "Logs"
    /\ last.id \in DOMAIN logs_hub
    /\ last.id \notin DOMAIN blocks_hub
    /\ logs_hub[last.id].filter.to_block.tag = "Num"
    /\ logs_hub[last.id].filter.to_block.n < last.H
    /\ logs_hub[last.id].filter.to_block.n \in Heights(last.res.val)

\* C23: from the moment a command is taken until its handling ends, no
\* sweep runs, no other command is taken or answered and neither map
\* changes, whatever the chain and the clock do meanwhile.
C23_HandledToCompletion ==
    [][inhand # <<>>
        => \/ inhand' = <<>>
           \/ UNCHANGED <<logs_hub, blocks_hub, nextTick, inhand, last, actor>>]_vars

\* A command is in hand while the head has advanced, a sweep tick is due,
\* a filter is registered and another command waits in the queue.
C23_Witness ==
    /\ inhand # <<>>
    /\ actor = "Running"
    /\ head > last.H
    /\ now >= nextTick
    /\ now > last.at
    /\ Registered > 0
    /\ queue # <<>>


\* The method recorded for a handled command.
OpOf(c) ==
    CASE c.cmd = "NewLogs" -> "new_filter"
      [] c.cmd = "NewBlocks" -> "block_filter"
      [] c.cmd = "FilterRequest" -> "get_filter_changes"
      [] c.cmd = "Uninstall" -> "uninstall_filter"

\* C24: commands are handled in the order they were enqueued. A send puts
\* its command behind every command already waiting, and the command the
\* actor handles and replies to is the one at the front: the oldest one.
\* The commands behind it keep their order.
C24_HandledInFifoOrder ==
    [][/\ Len(queue') > Len(queue)
            => /\ Len(queue') = Len(queue) + 1
               /\ SubSeq(queue', 1, Len(queue)) = queue
       /\ Len(queue') < Len(queue)
            => /\ last'.op = OpOf(Head(queue))
               /\ Head(queue).cmd \in {"FilterRequest", "Uninstall"}
                     => last'.id = Head(queue).id
               /\ actor' = "Running" => queue' = Tail(queue)]_vars

\* A block filter was created and answered while a poll and an uninstall,
\* sent after it, wait in that order.
C24_Witness ==
    /\ last.op = "block_filter"
    /\ last.res.kind = "Id"
    /\ Len(queue) = 2
    /\ queue[1].cmd = "FilterRequest"
    /\ queue[2].cmd = "Uninstall"


\* C25: the queue never holds more than CHANNEL_CAPACITY commands. While it
\* is full a sender neither adds a command nor returns: it waits, and
\* nothing is dropped. A command leaves the queue only by being handled,
\* one at a time and from the front, while the actor runs.
C25_QueueWithinCapacity ==
    [][/\ Len(queue) <= CHANNEL_CAPACITY
       /\ Len(queue') <= CHANNEL_CAPACITY
       /\ Len(queue) = CHANNEL_CAPACITY
            => \/ UNCHANGED <<queue, last>>
               \/ Len(queue') < Len(queue)
       /\ actor' = "Running"
            => \/ queue' = queue
               \/ Len(queue') = Len(queue) + 1 /\ SubSeq(queue', 1, Len(queue)) = queue
               \/ /\ queue # <<>>
                  /\ queue' = Tail(queue)
                  /\ last'.op = OpOf(Head(queue))]_vars

\* The queue is full after the actor has handled a command.
C25_Witness ==
    /\ Len(queue) = CHANNEL_CAPACITY
    /\ actor = "Running"
    /\ last.op = "uninstall_filter"
    /\ last.res.kind = "Bool"


\* C26: the actor leaves Running only when every handle is dropped and the
\* queue is empty, so the commands waiting when the last handle is dropped
\* are handled first; a sweep never ends the loop; and once the loop has
\* ended no command is handled and no map changes.
C26_StopsOnlyClosedAndEmpty ==
    [][/\ (actor = "Running" /\ actor' # "Running")
            => handles = "dropped" /\ queue = <<>>
       /\ SweepStep => actor' = actor
       /\ actor # "Running"
            => UNCHANGED <<actor, logs_hub, blocks_hub, queue, inhand>>]_vars

\* The same for the loop's own exit, the break on recv() yielding None.
C26_BreakOnlyClosedAndEmpty ==
    [][/\ (actor = "Running" /\ actor' = "Stopped")
            => handles = "dropped" /\ queue = <<>>
       /\ SweepStep => actor' = actor
       /\ actor = "Stopped" => UNCHANGED vars]_vars

\* The loop has ended by its break after a command was handled.
C26_Stopped ==
    /\ actor = "Stopped"
    /\ last.op = "uninstall_filter"
    /\ last.res.kind = "Bool"


\* The heights a log-watch entry has still to scan once the head is at H:
\* those from its cursor to the lesser of its to_block and H.
PendingHeights(entry, H) ==
    {h \in 0..H : Cursor(entry) <= h /\ h <= LastHeight(entry.filter, H)}

\* The logs are in ascending order of height.
Ascending(logs) ==
    \A i, j \in DOMAIN logs : i < j => logs[i].block <= logs[j].block

\* C27: successive successful polls of a log-watch filter scan disjoint,
\* contiguous, ascending ranges. A poll delivers the matching logs of exactly
\* the heights pending at the head it reads, in ascending order, and for
\* every later head the heights pending afterwards are those pending before
\* less the ones just scanned: none is scanned again and none is dropped.
C27_PollsPartitionHeights ==
    [][\A id \in U256s :
        LogPollStep(id)
        => LET before == logs_hub[id]
               after == logs_hub'[id]
               S == PendingHeights(before, head)
           IN  /\ id \in DOMAIN logs_hub'
               /\ Heights(last'.res.val) \subseteq S
               /\ Ascending(last'.res.val)
               /\ \A h \in S :
                     SelectSeq(last'.res.val, LAMBDA w : w.block = h)
                        = ExtendLogs(before.filter, h)
               /\ \A H \in head..(MaxHead + 1) :
                     PendingHeights(after, H) = PendingHeights(before, H) \ S]_vars

\* The last poll returned logs of the two heights up to its head, the lower
\* one above the first block.
C27_Witness ==
    /\ last.op = "get_filter_changes"
    /\ last.res.kind = "Logs"
    /\ last.H >= 2
    /\ Heights(last.res.val) = {last.H - 1, last.H}
    /\ last.id \in DOMAIN logs_hub
    /\ PendingHeights(logs_hub[last.id], last.H) = {}


\* The step handles a poll of the block-watch filter id and replies.
BlockPollStep(id) ==
    /\ PollStep(id)
    /\ id \in DOMAIN blocks_hub
    /\ last'.res.kind = "Blocks"

\* The step handles a block_filter call that is given the id.
NewBlocksStep(id) ==
    /\ HandleStep
    /\ last'.op = "block_filter"
    /\ last'.res = OkId(id)

\* C28: the hash sequences returned by the polls of a block-watch filter,
\* put end to end, are the hashes of the heights above the head at creation
\* up to the stored height, ascending, without gap or duplicate. Creation
\* stores the head; a poll returns the hashes of the heights from one above
\* the stored height S up to the head and stores the head; no other step
\* changes the stored height, which never decreases.
C28_BlockPollsConcatenate ==
    [][\A id \in U256s :
        /\ NewBlocksStep(id)
           => /\ id \in DOMAIN blocks_hub'
              /\ blocks_hub'[id].number = head
        /\ BlockPollStep(id)
           => /\ id \in DOMAIN blocks_hub'
              /\ blocks_hub[id].number <= head
              /\ blocks_hub'[id].number = head
              /\ last'.res = OkBlocks(HashesOf(blocks_hub[id].number + 1,
                                               blocks_hub'[id].number))
        /\ (id \in DOMAIN blocks_hub /\ id \in DOMAIN blocks_hub')
           => /\ blocks_hub'[id].number >= blocks_hub[id].number
              /\ blocks_hub'[id].number # blocks_hub[id].number
                    => BlockPollStep(id) \/ NewBlocksStep(id)]_vars

\* A poll returned the one hash of its head, the third block or a later
\* one, and stored that height; the head has moved on since.
C28_Witness ==
    /\ last.op = "get_filter_changes"
    /\ last.res.kind = "Blocks"
    /\ Len(last.res.val) = 1
    /\ last.id \in DOMAIN blocks_hub
    /\ blocks_hub[last.id].number = last.H
    /\ last.H >= 2
    /\ head > last.H


\* The entries of both maps under the keys other than id are the same
\* before and after the step.
OthersUntouched(id) ==
    \A k \in U256s \ {id} :
        /\ (k \in DOMAIN logs_hub) = (k \in DOMAIN logs_hub')
        /\ (k \in DOMAIN blocks_hub) = (k \in DOMAIN blocks_hub')
        /\ k \in DOMAIN logs_hub => logs_hub'[k] = logs_hub[k]
        /\ k \in DOMAIN blocks_hub => blocks_hub'[k] = blocks_hub[k]

\* Every entry of both maps is there, unchanged, after the step.
ExistingUntouched ==
    /\ \A k \in DOMAIN logs_hub : k \in DOMAIN logs_hub' /\ logs_hub'[k] = logs_hub[k]
    /\ \A k \in DOMAIN blocks_hub :
          k \in DOMAIN blocks_hub' /\ blocks_hub'[k] = blocks_hub[k]

\* The actor handles a poll or an uninstall of id.
TargetedStep(id) ==
    /\ HandleStep
    /\ actor = "Running"
    /\ last'.op \in {"get_filter_changes", "uninstall_filter"}
    /\ last'.id = id

\* The actor handles a create command.
CreateStep ==
    /\ HandleStep
    /\ actor = "Running"
    /\ last'.op \in {"new_filter", "block_filter"}
    /\ last'.res.kind \in {"Id", "Panic"}

\* C29: handling a poll or an uninstall of id changes no entry under another
\* key, in value or in membership, and handling a create command adds one
\* entry and changes no existing one.
C29_OtherEntriesUntouched ==
    [][/\ \A id \in U256s : TargetedStep(id) => OthersUntouched(id)
       /\ CreateStep
            => /\ ExistingUntouched
               /\ last'.res.kind = "Id" => Registered' = Registered + 1]_vars

\* The same for the commands that are answered, a create being given an id
\* that is not in use.
C29_AnsweredLeavesOthers ==
    [][/\ \A id \in U256s :
             (TargetedStep(id) /\ last'.res.kind # "Panic") => OthersUntouched(id)
       /\ (/\ CreateStep
           /\ last'.res.kind = "Id"
           /\ last'.res.val \notin DOMAIN logs_hub \cup DOMAIN blocks_hub)
            => /\ ExistingUntouched
               /\ Registered' = Registered + 1]_vars


\* The criteria of a log-watch entry other than its cursor.
Criteria(entry) ==
    <<entry.filter.to_block, entry.filter.address, entry.filter.topics>>

\* C30: the from_block of every stored log-watch entry is an explicit
\* number, before and after every step; so a successful poll with its cursor
\* at or below the head does move the cursor, and the to_block, address and
\* topics of an entry stay as registered for as long as it is stored.
C30_FromBlockAlwaysNumber ==
    [][\A id \in U256s :
        /\ id \in DOMAIN logs_hub => logs_hub[id].filter.from_block.tag = "Num"
        /\ id \in DOMAIN logs_hub' => logs_hub'[id].filter.from_block.tag = "Num"
        /\ (LogPollStep(id) /\ Cursor(logs_hub[id]) <= head)
           => /\ id \in DOMAIN logs_hub'
              /\ Cursor(logs_hub'[id]) = LastHeight(logs_hub[id].filter, head) + 1
        /\ (/\ id \in DOMAIN logs_hub
            /\ id \in DOMAIN logs_hub'
            /\ ~(NewLogsStep /\ last'.res = OkId(id)))
           => Criteria(logs_hub'[id]) = Criteria(logs_hub[id])]_vars

\* A filter sent with address and topic criteria and without a numeric
\* from_block is stored with a numeric one and with the criteria sent.
C30_Witness ==
    /\ last.op = "new_filter"
    /\ last.res.kind = "Id"
    /\ last.from.tag # "Num"
    /\ last.id \in DOMAIN logs_hub
    /\ logs_hub[last.id].filter.from_block = Num(last.H + 1)
    /\ logs_hub[last.id].filter.address = {"A"}
    /\ Len(logs_hub[last.id].filter.topics) = MAX_TOPICS

====
